---- MODULE Spec2Model ----
(***************************************************************************)
(* A model of netlify/functions/ai-proxy.js: the request handler that      *)
(* normalises a chat request, resolves the API key, routes to one of three *)
(* provider adapters, performs one outbound fetch and normalises the       *)
(* provider's answer into {text, provider, model, raw}.                    *)
(*                                                                         *)
(* Representation.                                                         *)
(*  - A JavaScript string that the code transforms (trim, toLowerCase,     *)
(*    concatenation, encodeURIComponent) is a sequence of one-character    *)
(*    strings; fixed literals that are only passed along are TLA+ strings. *)
(*  - An optional value is a sequence of length 0 (absent) or 1.           *)
(*  - A payload field is a record [t, s]: t = "absent", "str" (s holds the *)
(*    characters), "falsy" (null, 0, false) or "other" (a truthy value     *)
(*    that is no string, such as 5 or {}).                                 *)
(*  - A text (an HTTP body) is a record [json, chars]: json = <<v>> when   *)
(*    the text is the JSON serialisation of v, and otherwise the text is   *)
(*    the characters chars, which are no JSON.                             *)
(*  - A template literal with interpolations is a record of its literal    *)
(*    frame and the interpolated values.                                   *)
(***************************************************************************)
EXTENDS Integers, Sequences, FiniteSets, TLC

VARIABLES env, event, pc, frame, calls, net, res, envRead, response

vars == <<env, event, pc, frame, calls, net, res, envRead, response>>

(***************************************************************************)
(* Bounds of the enumerated inputs.                                        *)
(***************************************************************************)
MaxParts == 2

MaxCandidates == 2

MaxChoices == 2

(***************************************************************************)
(* Strings.                                                                *)
(***************************************************************************)
None == <<>>

Some(v) == <<v>>

WhiteSpace == {" ", "\t", "\n"}

RECURSIVE trimStart(_)
trimStart(s) ==
  IF s # <<>> /\ Head(s) \in WhiteSpace THEN trimStart(Tail(s)) ELSE s

RECURSIVE trimEnd(_)
trimEnd(s) ==
  IF s # <<>> /\ s[Len(s)] \in WhiteSpace
    THEN trimEnd(SubSeq(s, 1, Len(s) - 1))
    ELSE s

\* String.prototype.trim
trim(s) == trimEnd(trimStart(s))

UpperCase ==
  <<"A","B","C","D","E","F","G","H","I","J","K","L","M",
    "N","O","P","Q","R","S","T","U","V","W","X","Y","Z">>

LowerCase ==
  <<"a","b","c","d","e","f","g","h","i","j","k","l","m",
    "n","o","p","q","r","s","t","u","v","w","x","y","z">>

lowerChar(c) ==
  IF \E i \in DOMAIN UpperCase : UpperCase[i] = c
    THEN LowerCase[CHOOSE i \in DOMAIN UpperCase : UpperCase[i] = c]
    ELSE c

\* String.prototype.toLowerCase
toLowerCase(s) == [i \in DOMAIN s |-> lowerChar(s[i])]

\* Array.prototype.join("") of an array of strings
RECURSIVE join(_)
join(ss) == IF ss = <<>> THEN <<>> ELSE Head(ss) \o join(Tail(ss))

\* encodeURIComponent: the characters it leaves alone, among those the model uses
Unreserved ==
  {UpperCase[i] : i \in DOMAIN UpperCase} \cup {LowerCase[i] : i \in DOMAIN LowerCase}
    \cup {"0","1","2","3","4","5","6","7","8","9","-","_",".","!","~","*","'","(",")"}

escapeChar(c) ==
  IF c \in Unreserved THEN <<c>>
  ELSE IF c = " " THEN <<"%","2","0">>
  ELSE IF c = "/" THEN <<"%","2","F">>
  ELSE IF c = "\t" THEN <<"%","0","9">>
  ELSE IF c = "\n" THEN <<"%","0","A">>
  ELSE <<"%","3","F">>

encodeURIComponent(s) == join([i \in DOMAIN s |-> escapeChar(s[i])])

(***************************************************************************)
(* The provider names and model names of the source.                       *)
(***************************************************************************)
S_openai == <<"o","p","e","n","a","i">>

S_gemini == <<"g","e","m","i","n","i">>

S_google == <<"g","o","o","g","l","e">>

S_deepseek == <<"d","e","e","p","s","e","e","k">>

S_gpt4oMini == <<"g","p","t","-","4","o","-","m","i","n","i">>

S_gemini15Pro == <<"g","e","m","i","n","i","-","1",".","5","-","p","r","o">>

S_deepseekChat == <<"d","e","e","p","s","e","e","k","-","c","h","a","t">>

S_Bearer == <<"B","e","a","r","e","r"," ">>

(***************************************************************************)
(* Payload fields and JavaScript truthiness.                               *)
(***************************************************************************)
Absent == [t |-> "absent", s |-> <<>>]

Str(s) == [t |-> "str", s |-> s]

Falsy == [t |-> "falsy", s |-> <<>>]

Other == [t |-> "other", s |-> <<>>]

\* the value is truthy: `f || d` yields f
Truthy(f) == f.t = "other" \/ (f.t = "str" /\ f.s # <<>>)

(***************************************************************************)
(* Texts and JSON.                                                         *)
(***************************************************************************)
\* JSON.stringify(v)
JSONstringify(v) == [json |-> Some(v), chars |-> <<>>]

\* a text that is no JSON (the empty text included)
PlainText(cs) == [json |-> None, chars |-> cs]

\* JSON.parse(t) raises a SyntaxError
ParseFails(t) == t.json = None

\* JSON.parse(t), when it does not raise
JSONparse(t) == t.json[1]

(***************************************************************************)
(* Errors: [name, message]; a message is a template frame with the status  *)
(* and body interpolated into it, when it has them.                        *)
(***************************************************************************)
Message(text) == [text |-> text, status |-> None, body |-> None]

TypeError(text) == [name |-> "TypeError", message |-> Message(text)]

\* new Error(`${label}: ${res.status} ${JSON.stringify(raw)}`)
ProviderError(label, status, raw) ==
  [name |-> "Error",
   message |-> [text |-> label, status |-> Some(status), body |-> Some(JSONstringify(raw))]]

\* the error texts of the handler's responses; %s is the interpolated provider
ErrorText(text) == [text |-> text, provider |-> None]

ErrorAbout(text, provider) == [text |-> text, provider |-> Some(provider)]

(***************************************************************************)
(* Helpers of the source.                                                  *)
(***************************************************************************)
CORS_HEADERS ==
  ("Access-Control-Allow-Origin" :> "*")
    @@ ("Access-Control-Allow-Methods" :> "POST, OPTIONS")
    @@ ("Access-Control-Allow-Headers" :> "Content-Type, Authorization")

json(statusCode, body) ==
  [statusCode |-> statusCode,
   headers |-> ("Content-Type" :> "application/json") @@ CORS_HEADERS,
   body |-> JSONstringify(body)]

defaultModel(provider) ==
  CASE provider = S_openai -> S_gpt4oMini
    [] provider = S_gemini -> S_gemini15Pro
    [] provider = S_deepseek -> S_deepseekChat
    [] OTHER -> S_gpt4oMini

envKeyFor(provider) ==
  CASE provider = S_openai -> env.OPENAI_API_KEY
    [] provider = S_gemini -> env.GEMINI_API_KEY
    [] provider = S_deepseek -> env.DEEPSEEK_API_KEY
    [] OTHER -> <<>>

(***************************************************************************)
(* Decoded upstream bodies.  A JSON value the adapters inspect is null or  *)
(* an object with the optional members choices (OpenAI, DeepSeek) and      *)
(* candidates (Gemini); raw_ is the member "_raw" of safeJson's wrapper.   *)
(***************************************************************************)
JsonNull == [kind |-> "null", raw_ |-> None, choices |-> None, candidates |-> None]

JsonObject(choices, candidates) ==
  [kind |-> "object", raw_ |-> None, choices |-> choices, candidates |-> candidates]

\* { _raw: text }
RawWrapper(text) ==
  [kind |-> "object", raw_ |-> Some(text), choices |-> None, candidates |-> None]

\* mutant of ok: a redirect counts as a success
ok_Below400(r) == r.status >= 200 /\ r.status <= 399

\* res.ok
ok(r) == r.status >= 200 /\ r.status <= 299

\* mutant of safeJson: a body that is no JSON decodes to null
safeJson_NullOnFailure(r) == IF ParseFails(r.text) THEN JsonNull ELSE JSONparse(r.text)

\* safeJson, after res.text() has delivered the body
safeJson(r) == IF ParseFails(r.text) THEN RawWrapper(r.text) ELSE JSONparse(r.text)

(***************************************************************************)
(* callOpenAI                                                              *)
(***************************************************************************)
ChatMessages(a) ==
  (IF a.system # None THEN <<[role |-> "system", content |-> a.system[1]]>> ELSE <<>>)
    \o <<[role |-> "user", content |-> a.message]>>

\* the body of the call; the number 0.7 is written as the text JSON gives it
OpenAIBody(a) ==
  [model |-> a.model, messages |-> ChatMessages(a), temperature |-> "0.7"]

OpenAIRequest(a) ==
  [url |-> [endpoint |-> "https://api.openai.com/v1/chat/completions",
            model |-> <<>>, key |-> <<>>],
   method |-> "POST",
   headers |-> ("Authorization" :> (S_Bearer \o a.apiKey))
                 @@ ("Content-Type" :> "application/json"),
   body |-> JSONstringify(OpenAIBody(a))]

\* raw?.choices?.[0]?.message?.content?.trim?.() || ""
ChoiceText(raw) ==
  IF raw.kind = "null" \/ raw.choices = None \/ raw.choices[1] = <<>> THEN <<>>
  ELSE LET first == raw.choices[1][1] IN
    IF first.message = None THEN <<>>
    ELSE LET content == first.message[1].content IN
      IF content.t = "str" THEN trim(content.s) ELSE <<>>

OpenAIFinish(a, r, raw) ==
  IF ~ok(r)
    THEN [kind |-> "throw", err |-> ProviderError("OpenAI: ", r.status, raw)]
    ELSE [kind |-> "value",
          value |-> [text |-> ChoiceText(raw), provider |-> "openai",
                     model |-> a.model, raw |-> raw]]

(***************************************************************************)
(* callGemini                                                              *)
(***************************************************************************)
GeminiBody(a) ==
  [contents |->
     (IF a.system # None
        THEN <<[role |-> "system", parts |-> <<[text |-> a.system[1]]>>]>>
        ELSE <<>>)
       \o <<[role |-> "user", parts |-> <<[text |-> a.message]>>]>>]

\* the URL is the template of line 147 with its two interpolated values
GeminiRequest(a) ==
  [url |-> [endpoint |-> "https://generativelanguage.googleapis.com/v1beta/models/:generateContent?key=",
            model |-> encodeURIComponent(a.model),
            key |-> encodeURIComponent(a.apiKey)],
   method |-> "POST",
   headers |-> ("Content-Type" :> "application/json"),
   body |-> JSONstringify(GeminiBody(a))]

\* raw?.candidates?.[0]?.content?.parts, when the chain yields a value
HasParts(raw) ==
  /\ raw.kind # "null"
  /\ raw.candidates # None
  /\ raw.candidates[1] # <<>>
  /\ raw.candidates[1][1].content # None
  /\ raw.candidates[1][1].content[1].parts.t # "absent"

FirstParts(raw) == raw.candidates[1][1].content[1].parts

\* parts.map is not a function: parts is a truthy value that is no array
PartsMapThrows(raw) == HasParts(raw) /\ FirstParts(raw).t = "other"

\* p?.text || ""
PartText(p) == IF p.text # None THEN p.text[1] ELSE <<>>

\* mutant of CandidateText: the parts of every candidate are concatenated
CandidateText_AllCandidates(raw) ==
  IF ~HasParts(raw) THEN <<>>
  ELSE LET cands == raw.candidates[1]
           texts == [k \in DOMAIN cands |->
                       IF cands[k].content = None THEN <<>>
                       ELSE LET items == cands[k].content[1].parts.items IN
                            join([i \in DOMAIN items |-> PartText(items[i])])]
       IN trim(join(texts))

\* raw?.candidates?.[0]?.content?.parts?.map(p => p?.text || "").join("")?.trim() || ""
CandidateText(raw) ==
  IF ~HasParts(raw) THEN <<>>
  ELSE LET items == FirstParts(raw).items IN
    trim(join([i \in DOMAIN items |-> PartText(items[i])]))

GeminiFinish(a, r, raw) ==
  IF ~ok(r)
    THEN [kind |-> "throw", err |-> ProviderError("Gemini: ", r.status, raw)]
  ELSE IF PartsMapThrows(raw)
    THEN [kind |-> "throw", err |-> TypeError("parts.map is not a function")]
  ELSE [kind |-> "value",
        value |-> [text |-> CandidateText(raw), provider |-> "gemini",
                   model |-> a.model, raw |-> raw]]

(***************************************************************************)
(* callDeepSeek                                                            *)
(***************************************************************************)
\* mutant of DeepSeekBody: the body caps the tokens of the answer
DeepSeekBody_WithTokenCap(a) ==
  [model |-> a.model, messages |-> ChatMessages(a), temperature |-> "0.7",
   max_tokens |-> "1024"]

DeepSeekBody(a) ==
  [model |-> a.model, messages |-> ChatMessages(a), temperature |-> "0.7"]

DeepSeekRequest(a) ==
  [url |-> [endpoint |-> "https://api.deepseek.com/chat/completions",
            model |-> <<>>, key |-> <<>>],
   method |-> "POST",
   headers |-> ("Authorization" :> (S_Bearer \o a.apiKey))
                 @@ ("Content-Type" :> "application/json"),
   body |-> JSONstringify(DeepSeekBody(a))]

DeepSeekFinish(a, r, raw) ==
  IF ~ok(r)
    THEN [kind |-> "throw", err |-> ProviderError("DeepSeek: ", r.status, raw)]
    ELSE [kind |-> "value",
          value |-> [text |-> ChoiceText(raw), provider |-> "deepseek",
                     model |-> a.model, raw |-> raw]]

(***************************************************************************)
(* exports.handler, up to its first await.                                 *)
(***************************************************************************)
\* "{}"
EmptyPayload ==
  [kind |-> "object", provider |-> Absent, message |-> Absent, model |-> Absent,
   system |-> Absent, apiKey |-> Absent]

\* event.body || "{}"
BodyText(ev) ==
  IF ev.body # None /\ ev.body[1] # PlainText(<<>>)
    THEN ev.body[1]
    ELSE JSONstringify(EmptyPayload)

\* a property of the parsed payload: a value that is no object has none of them
Field(payload, name) == IF payload.kind = "object" THEN payload[name] ELSE Absent

\* (payload.provider || "openai").toLowerCase()
providerOf(payload) ==
  toLowerCase(IF Truthy(Field(payload, "provider"))
                THEN Field(payload, "provider").s
                ELSE S_openai)

\* mutant of messageOf: the message is not trimmed
messageOf_NoTrim(payload) ==
  IF Truthy(Field(payload, "message")) THEN Field(payload, "message").s ELSE <<>>

\* (payload.message || "").trim()
messageOf(payload) ==
  trim(IF Truthy(Field(payload, "message")) THEN Field(payload, "message").s ELSE <<>>)

\* payload.model || defaultModel(provider)
modelOf(payload, provider) ==
  IF Truthy(Field(payload, "model"))
    THEN Field(payload, "model").s
    ELSE defaultModel(provider)

\* payload.system || null
systemOf(payload) ==
  IF Truthy(Field(payload, "system")) THEN Some(Field(payload, "system").s) ELSE None

\* (payload.apiKey || "").trim()
keyFromBodyOf(payload) ==
  trim(IF Truthy(Field(payload, "apiKey")) THEN Field(payload, "apiKey").s ELSE <<>>)

\* mutant of apiKeyOf: the configured key wins over the request's
apiKeyOf_EnvFirst(keyFromBody, provider) ==
  IF envKeyFor(provider) # <<>> THEN envKeyFor(provider) ELSE keyFromBody

\* mutant of apiKeyOf: the configured key is never used
apiKeyOf_NoEnv(keyFromBody, provider) == keyFromBody

\* keyFromBody || envKeyFor(provider)
apiKeyOf(keyFromBody, provider) ==
  IF keyFromBody # <<>> THEN keyFromBody ELSE envKeyFor(provider)

\* envKeyFor is evaluated: the left operand of || is the empty string
consultsEnv(keyFromBody) == keyFromBody = <<>>

\* mutant of route: the default branch falls through to the OpenAI adapter
route_DefaultOpenAI(provider) ==
  CASE provider = S_gemini -> "gemini"
    [] provider = S_google -> "gemini"
    [] provider = S_deepseek -> "deepseek"
    [] OTHER -> "openai"

\* the switch on provider: the adapter it selects, or "none" for the default branch
route(provider) ==
  CASE provider = S_openai -> "openai"
    [] provider = S_gemini -> "gemini"
    [] provider = S_google -> "gemini"
    [] provider = S_deepseek -> "deepseek"
    [] OTHER -> "none"

\* mutant of catch: the exception message is not reported
catch_NoDetail(err) == json(500, [error |-> ErrorText("Internal error")])

\* the catch clause of the handler; every error the model raises has a message that
\* is not empty, so String(err?.message || err) is the message
catch(err) == json(500, [error |-> ErrorText("Internal error"), detail |-> err.message])

Return(r, read) == [kind |-> "return", response |-> r, envRead |-> read]

\* lines 48-70: the key is resolved and the request routed
resolveAndRoute(payload, provider, message) ==
  IF Field(payload, "apiKey").t = "other"
    THEN Return(catch(TypeError("(payload.apiKey || \"\").trim is not a function")), FALSE)
  ELSE LET keyFromBody == keyFromBodyOf(payload)
           apiKey == apiKeyOf(keyFromBody, provider)
           read == consultsEnv(keyFromBody)
           a == [apiKey |-> apiKey, model |-> modelOf(payload, provider),
                 system |-> systemOf(payload), message |-> message]
       IN
    IF apiKey = <<>>
      THEN Return(json(400, [error |-> ErrorAbout("Missing API key for provider '%s'.",
                                                    provider)]), read)
    ELSE IF route(provider) = "none"
      THEN Return(json(400, [error |-> ErrorAbout("Unsupported provider '%s'.",
                                                    provider)]), read)
    ELSE [kind |-> "call", adapter |-> route(provider), args |-> a, envRead |-> read]

\* lines 39-46: the payload is normalised and the message validated
normalize(payload) ==
  IF payload.kind = "null"
    THEN Return(catch(TypeError("Cannot read properties of null (reading 'provider')")), FALSE)
  ELSE IF Field(payload, "provider").t = "other"
    THEN Return(catch(TypeError("(payload.provider || \"openai\").toLowerCase is not a function")), FALSE)
  ELSE IF Field(payload, "message").t = "other"
    THEN Return(catch(TypeError("(payload.message || \"\").trim is not a function")), FALSE)
  ELSE IF messageOf(payload) = <<>>
    THEN Return(json(400, [error |-> ErrorText("Missing 'message'.")]), FALSE)
  ELSE resolveAndRoute(payload, providerOf(payload), messageOf(payload))

\* lines 22-37: the method check and the decoding of the body
handlerStart(ev) ==
  IF ev.httpMethod = "OPTIONS"
    THEN Return([statusCode |-> 200, headers |-> CORS_HEADERS, body |-> PlainText(<<>>)], FALSE)
  ELSE IF ev.httpMethod # "POST"
    THEN Return(json(405, [error |-> ErrorText("Method Not Allowed. Use POST.")]), FALSE)
  ELSE IF ParseFails(BodyText(ev))
    THEN Return(json(400, [error |-> ErrorText("Invalid JSON body")]), FALSE)
  ELSE normalize(JSONparse(BodyText(ev)))

\* the fetch an adapter issues
requestOf(adapter, a) ==
  CASE adapter = "openai" -> OpenAIRequest(a)
    [] adapter = "gemini" -> GeminiRequest(a)
    [] adapter = "deepseek" -> DeepSeekRequest(a)

\* the adapter after its fetch and safeJson: its result, or the error it throws
finishOf(adapter, a, r, raw) ==
  CASE adapter = "openai" -> OpenAIFinish(a, r, raw)
    [] adapter = "gemini" -> GeminiFinish(a, r, raw)
    [] adapter = "deepseek" -> DeepSeekFinish(a, r, raw)

\* lines 72-76: return json(200, result), or the catch clause
handlerFinish(outcome) ==
  IF outcome.kind = "throw" THEN catch(outcome.err) ELSE json(200, outcome.value)

(***************************************************************************)
(* The inputs: events, process environments and upstream responses.        *)
(***************************************************************************)
S_foo == <<"f","o","o">>

S_bar == <<"b","a","r">>

Methods == {"OPTIONS", "POST", "GET"}

ProviderFields ==
  {Absent, Other, Str(<<>>), Str(S_openai), Str(S_gemini), Str(<<"G","e","m","i","n","i">>),
   Str(S_google), Str(S_deepseek), Str(S_foo)}

MessageFields ==
  {Absent, Falsy, Other, Str(<<>>), Str(<<" ","\n">>), Str(<<" ","h","i"," ">>)}

\* model and system are only passed along: they are drawn absent or a string
ModelFields == {Absent, Str(<<"m","/","1">>)}

SystemFields == {Absent, Str(<<"s","y","s">>)}

ApiKeyFields == {Absent, Other, Str(<<" ">>), Str(<<" ","k","1"," ">>)}

Payloads ==
  [kind : {"object"}, provider : ProviderFields, message : MessageFields,
   model : ModelFields, system : SystemFields, apiKey : ApiKeyFields]
    \cup {[EmptyPayload EXCEPT !.kind = "null"], [EmptyPayload EXCEPT !.kind = "scalar"]}

Bodies ==
  {None, Some(PlainText(<<>>)), Some(PlainText(<<"{","o","o","p","s">>))}
    \cup {Some(JSONstringify(p)) : p \in Payloads}

Events == [httpMethod : Methods, body : Bodies]

Environments ==
  [OPENAI_API_KEY : {<<>>, <<"e","o">>},
   GEMINI_API_KEY : {<<>>, <<"e","g">>},
   DEEPSEEK_API_KEY : {<<>>, <<"e","d">>}]

\* sequences over S of length at most n
SeqsUpTo(S, n) == UNION {[1..k -> S] : k \in 0..n}

\* n copies of v
Repeat(v, n) == [i \in 1..n |-> v]

Choice(content) == [message |-> Some([content |-> content])]

FirstChoices ==
  {[message |-> None], Choice(Absent), Choice(Other),
   Choice(Str(<<" ","h","e","l","l","o","\n">>))}

OtherChoice == Choice(Str(<<"z">>))

ChoiceLists ==
  {<<>>} \cup {<<c>> \o Repeat(OtherChoice, k) : c \in FirstChoices, k \in 0..(MaxChoices - 1)}

Part(text) == [text |-> text]

Parts == {Part(None), Part(Some(S_foo)), Part(Some(S_bar)), Part(Some(<<" ">>))}

PartsArray(items) == [t |-> "array", items |-> items]

Candidate(parts) == [content |-> Some([parts |-> parts])]

FirstCandidates ==
  {[content |-> None], Candidate([t |-> "absent", items |-> <<>>]),
   Candidate([t |-> "other", items |-> <<>>])}
    \cup {Candidate(PartsArray(ps)) : ps \in SeqsUpTo(Parts, MaxParts)}

OtherCandidate == Candidate(PartsArray(<<Part(Some(<<"z">>))>>))

CandidateLists ==
  {<<>>} \cup {<<c>> \o Repeat(OtherCandidate, k) :
                 c \in FirstCandidates, k \in 0..(MaxCandidates - 1)}

UpstreamTexts ==
  {PlainText(<<>>), PlainText(<<"o","o","p","s">>), JSONstringify(JsonNull),
   JSONstringify(JsonObject(None, None))}
    \cup {JSONstringify(JsonObject(Some(cs), None)) : cs \in ChoiceLists}
    \cup {JSONstringify(JsonObject(None, Some(cs))) : cs \in CandidateLists}

Statuses == {200, 299, 300, 401}

UpstreamResponses == [status : Statuses, text : UpstreamTexts]

\* a few upstream bodies, for the runs that vary the request
SampleTexts ==
  {PlainText(<<>>), PlainText(<<"o","o","p","s">>), JSONstringify(JsonNull),
   JSONstringify(JsonObject(None, None)),
   JSONstringify(JsonObject(Some(<<Choice(Str(<<" ","h","e","l","l","o","\n">>))>>), None)),
   JSONstringify(JsonObject(None,
     Some(<<Candidate(PartsArray(<<Part(Some(S_foo)), Part(Some(S_bar))>>))>>))),
   JSONstringify(JsonObject(None, Some(<<Candidate([t |-> "other", items |-> <<>>])>>)))}

SampleResponses == [status : Statuses, text : SampleTexts]

\* a few well-formed requests, one per adapter, for the runs that vary the upstream body
SamplePayloads ==
  {[EmptyPayload EXCEPT !.provider = Str(pr),
                        !.message = Str(<<" ","h","i"," ">>),
                        !.apiKey = Str(<<" ","k","1"," ">>)] :
     pr \in {S_openai, S_gemini, S_deepseek}}

SampleEvents == {[httpMethod |-> "POST", body |-> Some(JSONstringify(p))] : p \in SamplePayloads}

(***************************************************************************)
(* The state machine: one invocation of the handler at a time, suspended   *)
(* at its two awaits (fetch, and res.text() inside safeJson).              *)
(***************************************************************************)
Init ==
  /\ env \in Environments
  /\ event = None
  /\ pc = "idle"
  /\ frame = None
  /\ calls = <<>>
  /\ net = "none"
  /\ res = None
  /\ envRead = FALSE
  /\ response = None

\* the platform invokes the handler, which runs to its first await or returns
Invoke(ev) ==
  /\ pc = "idle"
  /\ event' = Some(ev)
  /\ LET o == handlerStart(ev) IN
       /\ envRead' = o.envRead
       /\ IF o.kind = "call"
            THEN /\ calls' = Append(calls, requestOf(o.adapter, o.args))
                 /\ frame' = Some([adapter |-> o.adapter, args |-> o.args])
                 /\ net' = "pending"
                 /\ pc' = "fetching"
                 /\ response' = None
            ELSE /\ response' = Some(o.response)
                 /\ pc' = "done"
                 /\ UNCHANGED <<calls, frame, net>>
  /\ UNCHANGED <<env, res>>

\* await fetch(...) yields the provider's response
FetchFulfil(r) ==
  /\ pc = "fetching"
  /\ res' = Some(r)
  /\ net' = "headers"
  /\ pc' = "reading"
  /\ UNCHANGED <<env, event, frame, calls, envRead, response>>

\* await fetch(...) rejects: the catch clause answers
FetchReject ==
  /\ pc = "fetching"
  /\ net' = "rejected"
  /\ response' = Some(catch(TypeError("fetch failed")))
  /\ pc' = "done"
  /\ UNCHANGED <<env, event, frame, calls, res, envRead>>

\* await res.text() yields the body: safeJson decodes it, the adapter checks the
\* status and extracts the text, and the handler answers
TextFulfil ==
  /\ pc = "reading"
  /\ net' = "decoded"
  /\ response' = Some(handlerFinish(
       finishOf(frame[1].adapter, frame[1].args, res[1], safeJson(res[1]))))
  /\ pc' = "done"
  /\ UNCHANGED <<env, event, frame, calls, res, envRead>>

\* await res.text() rejects: the catch clause answers
TextReject ==
  /\ pc = "reading"
  /\ net' = "rejected"
  /\ response' = Some(catch(TypeError("terminated")))
  /\ pc' = "done"
  /\ UNCHANGED <<env, event, frame, calls, res, envRead>>

\* the invocation is over: nothing of it is kept for the next one
Finish ==
  /\ pc = "done"
  /\ event' = None
  /\ pc' = "idle"
  /\ frame' = None
  /\ calls' = <<>>
  /\ net' = "none"
  /\ res' = None
  /\ envRead' = FALSE
  /\ response' = None
  /\ UNCHANGED env

\* every request of Events, against the sample upstream responses
Next ==
  \/ \E ev \in Events : Invoke(ev)
  \/ \E r \in SampleResponses : FetchFulfil(r)
  \/ FetchReject
  \/ TextFulfil
  \/ TextReject
  \/ Finish

Spec == Init /\ [][Next]_vars

\* the sample requests, against every upstream response of UpstreamResponses
UpstreamNext ==
  \/ \E ev \in SampleEvents : Invoke(ev)
  \/ \E r \in UpstreamResponses : FetchFulfil(r)
  \/ FetchReject
  \/ TextFulfil
  \/ TextReject
  \/ Finish

UpstreamSpec == Init /\ [][UpstreamNext]_vars

(***************************************************************************)
(* Vocabulary of the properties.  These definitions read the request and   *)
(* the observable outcome; they do not go through the handler's own        *)
(* normalisation.                                                          *)
(***************************************************************************)
\* the field `name` of the request's JSON body (absent when there is no such body)
RequestField(name) ==
  IF event = None \/ ParseFails(BodyText(event[1]))
    THEN Absent
    ELSE Field(JSONparse(BodyText(event[1])), name)

\* the value is missing: absent, null, or a string of white space only
Blank(f) ==
  \/ f.t \in {"absent", "falsy"}
  \/ f.t = "str" /\ \A i \in DOMAIN f.s : f.s[i] \in WhiteSpace

\* the string without its leading and trailing white space
Stripped(cs) ==
  LET keep == {i \in DOMAIN cs : cs[i] \notin WhiteSpace} IN
  IF keep = {} THEN <<>>
  ELSE SubSeq(cs, CHOOSE i \in keep : \A j \in keep : i <= j,
                  CHOOSE i \in keep : \A j \in keep : i >= j)

\* the request is a chat request as the data model types it: a POST whose body is
\* absent or a JSON value other than null, with every field absent, null or a string
IsChatRequest ==
  /\ event # None
  /\ event[1].httpMethod = "POST"
  /\ ~ParseFails(BodyText(event[1]))
  /\ JSONparse(BodyText(event[1])).kind # "null"
  /\ \A name \in {"provider", "message", "model", "system", "apiKey"} :
       RequestField(name).t # "other"

\* the provider the request names, lower-cased; openai when it names none
RequestedProvider ==
  IF RequestField("provider").t = "str" /\ RequestField("provider").s # <<>>
    THEN toLowerCase(RequestField("provider").s)
    ELSE S_openai

Supported == {S_openai, S_gemini, S_deepseek}

Answered == pc = "done" /\ response # None

StatusCode == response[1].statusCode

\* the decoded JSON body of the handler's response
Answer == response[1].body.json[1]

NoOutboundCall == calls = <<>> /\ net = "none" /\ res = None

\* the API key an outbound call carries: the bearer token, or the key of the query
KeyOfCall(c) ==
  IF "Authorization" \in DOMAIN c.headers
    THEN SubSeq(c.headers["Authorization"], Len(S_Bearer) + 1, Len(c.headers["Authorization"]))
    ELSE c.url.key

\* the process-wide default key of the provider an adapter serves
DefaultKeyOf(adapter) ==
  CASE adapter = "openai" -> env.OPENAI_API_KEY
    [] adapter = "gemini" -> env.GEMINI_API_KEY
    [] adapter = "deepseek" -> env.DEEPSEEK_API_KEY

\* the adapter that serves a provider name, when one does
AdapterOf(provider) ==
  CASE provider = S_openai -> "openai"
    [] provider \in {S_gemini, S_google} -> "gemini"
    [] provider = S_deepseek -> "deepseek"

(***************************************************************************)
(* C1.  A chat request (a POST with a decodable body whose fields are      *)
(* absent, null or strings) whose message is absent, empty or white space  *)
(* only is answered with status 400; and no request whose message is       *)
(* missing, whatever its method and its other fields, causes an outbound   *)
(* call at any point of its handling.                                      *)
(***************************************************************************)
C1_MissingMessageRejected ==
  (event # None /\ Blank(RequestField("message"))) =>
    /\ NoOutboundCall
    /\ pc = "done"
    /\ IsChatRequest => (Answered /\ StatusCode = 400)

C1_Witness ==
  /\ Answered
  /\ IsChatRequest
  /\ RequestField("message") = Str(<<" ","\n">>)
  /\ RequestField("apiKey") = Str(<<" ","k","1"," ">>)
  /\ StatusCode = 400

GivenKey ==
  IF RequestField("apiKey").t = "str" THEN Stripped(RequestField("apiKey").s) ELSE <<>>

\* the key as an adapter's call carries it: the Gemini adapter URL-encodes it
KeyAsSent(adapter, key) == IF adapter = "gemini" THEN encodeURIComponent(key) ELSE key

\* the requested provider has no process-wide default key
NoDefaultKey ==
  \/ RequestedProvider \notin (Supported \cup {S_google})
  \/ DefaultKeyOf(AdapterOf(RequestedProvider)) = <<>>

(***************************************************************************)
(* C3, as claimed.  Whenever the request carries an explicit apiKey, that  *)
(* apiKey is the key of the outbound call, and the process-wide key is not *)
(* consulted.                                                              *)
(***************************************************************************)
C3_AsClaimed ==
  (/\ calls # <<>>
   /\ RequestField("apiKey").t = "str"
   /\ RequestField("apiKey").s # <<>>) =>
    /\ KeyOfCall(calls[1]) = KeyAsSent(frame[1].adapter, RequestField("apiKey").s)
    /\ ~envRead

(***************************************************************************)
(* C3, amended.  The key of the outbound call is the request's apiKey      *)
(* without its surrounding white space whenever that is not empty, and     *)
(* otherwise the process-wide default key of the provider whose adapter    *)
(* makes the call; the process-wide key is consulted only when the apiKey  *)
(* is absent, empty or white space only; and a chat request with a message *)
(* that has neither is answered with status 400 without an outbound call.  *)
(***************************************************************************)
C3_CredentialResolution ==
  /\ calls # <<>> =>
       /\ KeyOfCall(calls[1]) =
            KeyAsSent(frame[1].adapter,
                      IF GivenKey # <<>> THEN GivenKey ELSE DefaultKeyOf(frame[1].adapter))
       /\ KeyOfCall(calls[1]) # <<>>
  /\ envRead => GivenKey = <<>>
  /\ (/\ Answered
      /\ IsChatRequest
      /\ ~Blank(RequestField("message"))
      /\ GivenKey = <<>>
      /\ NoDefaultKey) => (StatusCode = 400 /\ NoOutboundCall)

\* the explicit key wins over a configured one, after trimming
C3_Witness ==
  /\ calls # <<>>
  /\ frame[1].adapter = "deepseek"
  /\ RequestField("apiKey") = Str(<<" ","k","1"," ">>)
  /\ env.DEEPSEEK_API_KEY # <<>>
  /\ KeyOfCall(calls[1]) = <<"k","1">>
  /\ ~envRead

\* the upstream response as decoded: its JSON value, or the wrapper of its text
Decoded(r) == IF r.text.json # None THEN r.text.json[1] ELSE RawWrapper(r.text)

NonSuccess(r) == r.status < 200 \/ r.status > 299

HasDetail == response[1].body.json # None /\ "detail" \in DOMAIN Answer

(***************************************************************************)
(* C4.  For each adapter, when the outbound call is answered with a        *)
(* non-success status the handler answers 500 with a detail that carries   *)
(* that status and the decoded body, and the request has made exactly one  *)
(* outbound call: none is ever followed by a second.                       *)
(***************************************************************************)
C4_UpstreamFailureIs500 ==
  /\ Len(calls) <= 1
  /\ (Answered /\ net = "decoded" /\ NonSuccess(res[1])) =>
       /\ StatusCode = 500
       /\ HasDetail
       /\ Answer.detail.status = Some(res[1].status)
       /\ Answer.detail.body = Some(JSONstringify(Decoded(res[1])))
       /\ Len(calls) = 1

C4_Witness ==
  /\ Answered
  /\ net = "decoded"
  /\ frame[1].adapter = "gemini"
  /\ res[1].status = 401
  /\ res[1].text.json # None
  /\ StatusCode = 500
  /\ Answer.detail.status = Some(401)

\* the request passes the handler's validation and routing
Validated ==
  /\ IsChatRequest
  /\ ~Blank(RequestField("message"))
  /\ RequestedProvider \in (Supported \cup {S_google})
  /\ GivenKey # <<>> \/ (RequestedProvider \in Supported /\ ~NoDefaultKey)

(***************************************************************************)
(* C5, as claimed.  Every chat request makes exactly one outbound call,    *)
(* whose body has been read and decoded when the handler answers.          *)
(***************************************************************************)
C5_AsClaimed == (Answered /\ IsChatRequest) => (Len(calls) = 1 /\ net = "decoded")

(***************************************************************************)
(* C5, amended.  A request makes at most one outbound call: exactly one    *)
(* when it passes validation and routing, none otherwise.  When a call was *)
(* made the handler answers only after it has settled (its body read and   *)
(* decoded, or the fetch or the reading of the body failed), and it        *)
(* answers 200 only after the body was read and decoded.                   *)
(***************************************************************************)
C5_AtMostOneCallThenAnswer ==
  /\ Len(calls) <= 1
  /\ event # None => (Len(calls) = 1 <=> Validated)
  /\ (response # None /\ calls # <<>>) => net \in {"decoded", "rejected"}
  /\ (response # None /\ calls # <<>> /\ StatusCode = 200) => net = "decoded"
  /\ (response = None /\ event # None) => net \in {"pending", "headers"}

C5_Witness ==
  /\ Answered
  /\ Len(calls) = 1
  /\ net = "decoded"
  /\ StatusCode = 200
  /\ envRead

(***************************************************************************)
(* C6.  An upstream body that is no JSON does not make decoding fail: the  *)
(* adapter gets the wrapper holding the text under _raw and checks the     *)
(* status afterwards.  With a success status the handler answers 200 with  *)
(* raw equal to the wrapper and an empty text; with any other status it    *)
(* answers 500 with a detail carrying the status and the wrapped text.     *)
(***************************************************************************)
C6_NonJsonBodyWrapped ==
  (Answered /\ net = "decoded" /\ res[1].text.json = None) =>
    IF NonSuccess(res[1])
      THEN /\ StatusCode = 500
           /\ HasDetail
           /\ Answer.detail.status = Some(res[1].status)
           /\ Answer.detail.body = Some(JSONstringify(RawWrapper(res[1].text)))
      ELSE /\ StatusCode = 200
           /\ Answer.raw.raw_ = Some(res[1].text)
           /\ Answer.raw = RawWrapper(res[1].text)
           /\ Answer.text = <<>>

C6_Witness ==
  /\ Answered
  /\ net = "decoded"
  /\ frame[1].adapter = "gemini"
  /\ res[1] = [status |-> 200, text |-> PlainText(<<"o","o","p","s">>)]
  /\ StatusCode = 200
  /\ Answer.raw.raw_ = Some(PlainText(<<"o","o","p","s">>))

\* the upstream JSON value has the shape of a Gemini answer: an object whose first
\* candidate, when it has one with content and parts, holds an array of parts
GeminiShaped(v) ==
  /\ v.kind = "object"
  /\ (v.candidates # None /\ v.candidates[1] # <<>> /\ v.candidates[1][1].content # None)
       => v.candidates[1][1].content[1].parts.t \in {"absent", "array"}

\* the parts of the first candidate's content; none when there is no such candidate
PartsOfFirstCandidate(v) ==
  IF v.candidates = None \/ v.candidates[1] = <<>> THEN <<>>
  ELSE IF v.candidates[1][1].content = None THEN <<>>
  ELSE v.candidates[1][1].content[1].parts.items

\* the texts of the text parts among ps, in order, concatenated
RECURSIVE ConcatTexts(_)
ConcatTexts(ps) ==
  IF ps = <<>> THEN <<>>
  ELSE (IF Head(ps).text = None THEN <<>> ELSE Head(ps).text[1]) \o ConcatTexts(Tail(ps))

\* the handler answers a Gemini-shaped success response of the Gemini adapter
GeminiSuccess ==
  /\ Answered
  /\ net = "decoded"
  /\ frame[1].adapter = "gemini"
  /\ ~NonSuccess(res[1])
  /\ res[1].text.json # None
  /\ GeminiShaped(res[1].text.json[1])

(***************************************************************************)
(* C7, as claimed.  For a Gemini-shaped success response the text is the   *)
(* concatenation, in order, of the text parts of the first candidate, and  *)
(* raw is the decoded body.                                                *)
(***************************************************************************)
C7_AsClaimed ==
  GeminiSuccess =>
    /\ StatusCode = 200
    /\ Answer.text = ConcatTexts(PartsOfFirstCandidate(res[1].text.json[1]))
    /\ Answer.raw = res[1].text.json[1]

(***************************************************************************)
(* C7, amended.  For a Gemini-shaped success response the text is the      *)
(* concatenation, in order, of the text parts of the first candidate,      *)
(* without its leading and trailing white space; the other candidates      *)
(* contribute nothing, a response with no candidate or no part gives the   *)
(* empty text, and raw is the decoded body, unmodified.                    *)
(***************************************************************************)
C7_GeminiTextIsTrimmedConcatenation ==
  GeminiSuccess =>
    /\ StatusCode = 200
    /\ Answer.text = Stripped(ConcatTexts(PartsOfFirstCandidate(res[1].text.json[1])))
    /\ PartsOfFirstCandidate(res[1].text.json[1]) = <<>> => Answer.text = <<>>
    /\ Answer.raw = res[1].text.json[1]
    /\ Answer.provider = "gemini"

\* parts "foo" and "bar" in the first of two candidates give "foobar"
C7_Witness ==
  /\ GeminiSuccess
  /\ res[1].text.json[1].candidates # None
  /\ Len(res[1].text.json[1].candidates[1]) = 2
  /\ PartsOfFirstCandidate(res[1].text.json[1]) = <<Part(Some(S_foo)), Part(Some(S_bar))>>
  /\ Answer.text = S_foo \o S_bar

\* the request gives no model: the field is absent, null or empty
ModelOmitted == RequestField("model").t \in {"absent", "falsy"} \/ RequestField("model").s = <<>>

\* the default model of the provider an adapter serves
DefaultModelOf(adapter) ==
  CASE adapter = "openai" -> S_gpt4oMini
    [] adapter = "gemini" -> S_gemini15Pro
    [] adapter = "deepseek" -> S_deepseekChat

\* the model an outbound call names: in the URL for Gemini, else in the body
ModelOfCall(adapter, c) ==
  IF adapter = "gemini" THEN c.url.model ELSE c.body.json[1].model

(***************************************************************************)
(* C8, as claimed.  When the request gives no model, the model of the      *)
(* outbound call and of the response is the default model of the provider  *)
(* whose adapter makes the call, for every provider name the router        *)
(* accepts; a request that names no provider is handled by the OpenAI      *)
(* adapter.                                                                *)
(***************************************************************************)
C8_AsClaimed ==
  /\ (calls # <<>> /\ ModelOmitted) =>
       /\ ModelOfCall(frame[1].adapter, calls[1]) =
            KeyAsSent(frame[1].adapter, DefaultModelOf(frame[1].adapter))
       /\ (Answered /\ StatusCode = 200) => Answer.model = DefaultModelOf(frame[1].adapter)
  /\ (calls # <<>> /\ Blank(RequestField("provider"))) => frame[1].adapter = "openai"

\* the JSON body of an outbound call
BodyOfCall(c) == c.body.json[1]

\* the chat-completion messages of the request: the system message, when the request
\* gives one, and then the user message
ExpectedMessages ==
  (IF RequestField("system").t = "str" /\ RequestField("system").s # <<>>
     THEN <<[role |-> "system", content |-> RequestField("system").s]>>
     ELSE <<>>)
    \o <<[role |-> "user", content |-> Stripped(RequestField("message").s)]>>

ChatCompletionFields == {"model", "messages", "temperature"}

(***************************************************************************)
(* C9, as claimed.  The body of the DeepSeek adapter's call carries a      *)
(* token-cap field beside the fields of the OpenAI adapter's body.         *)
(***************************************************************************)
C9_AsClaimed ==
  (calls # <<>> /\ frame[1].adapter = "deepseek") =>
    (DOMAIN BodyOfCall(calls[1])) \ (DOMAIN OpenAIBody(frame[1].args)) # {}

(***************************************************************************)
(* C9, amended.  The body of the DeepSeek adapter's call carries no        *)
(* token-cap field: it has exactly the fields model, messages and          *)
(* temperature and equals the body the OpenAI adapter builds for the same  *)
(* request, the messages being the optional system message and then the    *)
(* user message; the two calls differ in their endpoint.                   *)
(***************************************************************************)
C9_DeepSeekBodyIsOpenAIBody ==
  /\ (calls # <<>> /\ frame[1].adapter = "deepseek") =>
       /\ DOMAIN BodyOfCall(calls[1]) = ChatCompletionFields
       /\ BodyOfCall(calls[1]) = OpenAIBody(frame[1].args)
       /\ BodyOfCall(calls[1]).messages = ExpectedMessages
       /\ calls[1].url.endpoint # OpenAIRequest(frame[1].args).url.endpoint
  /\ (calls # <<>> /\ frame[1].adapter = "openai") =>
       /\ DOMAIN BodyOfCall(calls[1]) = ChatCompletionFields
       /\ BodyOfCall(calls[1]).messages = ExpectedMessages

C9_Witness ==
  /\ calls # <<>>
  /\ frame[1].adapter = "deepseek"
  /\ RequestField("system") = Str(<<"s","y","s">>)
  /\ Len(BodyOfCall(calls[1]).messages) = 2
  /\ BodyOfCall(calls[1]).messages[1].role = "system"

\* a fault is raised while the request is handled: a property of null is read, a
\* string method is called on a value that is no string, the fetch or the reading of
\* its body fails, the upstream status is no success, or the Gemini adapter maps over
\* parts that are no array
FaultRaised ==
  \/ /\ event[1].httpMethod = "POST"
     /\ ~ParseFails(BodyText(event[1]))
     /\ \/ JSONparse(BodyText(event[1])).kind = "null"
        \/ RequestField("provider").t = "other"
        \/ RequestField("message").t = "other"
        \/ ~Blank(RequestField("message")) /\ RequestField("apiKey").t = "other"
  \/ net = "rejected"
  \/ net = "decoded" /\ NonSuccess(res[1])
  \/ /\ net = "decoded"
     /\ frame[1].adapter = "gemini"
     /\ res[1].text.json # None
     /\ res[1].text.json[1].kind = "object"
     /\ ~GeminiShaped(res[1].text.json[1])

IsPreflight == event[1].httpMethod = "OPTIONS"

(***************************************************************************)
(* C10, as claimed.  Every event is answered, with a status among 200,     *)
(* 400, 405 and 500, and status 200 is returned only after an outbound     *)
(* call completed with a success status.                                   *)
(***************************************************************************)
C10_AsClaimed ==
  /\ pc = "done" => (response # None /\ StatusCode \in {200, 400, 405, 500})
  /\ (Answered /\ StatusCode = 200) =>
       (Len(calls) = 1 /\ net = "decoded" /\ ~NonSuccess(res[1]))

(***************************************************************************)
(* C10, amended.  The handler is total: every event is answered, once the  *)
(* handler is done and not before, with a status among 200, 400, 405 and   *)
(* 500; a fault raised after the method check gives 500 with an error and  *)
(* a detail carrying the exception message, and every 500 has that form;   *)
(* status 200 is returned only to an OPTIONS preflight (with an empty body *)
(* and no outbound call) or after an outbound call completed with a        *)
(* success status.                                                         *)
(***************************************************************************)
C10_HandlerIsTotal ==
  /\ pc \in {"idle", "fetching", "reading", "done"}
  /\ (pc = "done") <=> (response # None)
  /\ Answered =>
       /\ StatusCode \in {200, 400, 405, 500}
       /\ (event[1].httpMethod = "POST" /\ FaultRaised) => StatusCode = 500
       /\ StatusCode = 500 =>
            /\ HasDetail
            /\ "error" \in DOMAIN Answer
            /\ Answer.detail.text # ""
            /\ FaultRaised
       /\ StatusCode = 200 =>
            \/ IsPreflight /\ NoOutboundCall /\ response[1].body = PlainText(<<>>)
            \/ ~IsPreflight /\ Len(calls) = 1 /\ net = "decoded" /\ ~NonSuccess(res[1])

\* a request with a field that is no string is answered 500 by the catch clause
C10_Witness ==
  /\ Answered
  /\ event[1].httpMethod = "POST"
  /\ RequestField("provider").t = "other"
  /\ StatusCode = 500
  /\ HasDetail
  /\ NoOutboundCall

====
